---- MODULE Spec2Model ----
(***************************************************************************)
(* Model of the go-fuse control loop (fuse/fuse.go): MountState.Loop,      *)
(* loop, newRequest, readRequest, chopMessage, handle, dispatch,           *)
(* serialize, Write and discardRequest.                                    *)
(*                                                                         *)
(* Every worker goroutine owns one request object (lastReq in loop()).     *)
(* The kernel channel, the operation registry (getHandler) and the         *)
(* filesystem handlers are the environment: the channel hands out          *)
(* messages with fresh Unique ids or fails a read with an errno, the       *)
(* registry is a fixed table, a handler sets any status / outData /        *)
(* flatData.  A worker's cycle is cut at the points where other            *)
(* goroutines can interleave: the blocking read, the handler call and the  *)
(* write system call.                                                      *)
(***************************************************************************)
EXTENDS Integers, Sequences, FiniteSets, TLC

----------------------------------------------------------------------------
(* Bounds of the model *)

\* background goroutines started by Loop(true) (fuse.go:200)
BACKGROUND_TASKS == 1
\* messages the kernel sends in one run
MaxMsgs == 2
\* longest flat payload a handler returns
MaxFlat == 1
\* latest reading of the clock
MaxClock == 3
\* inputs of a run that is repeated with the statistics switched
MaxSteps == 4

----------------------------------------------------------------------------
(* Program constants *)

bufSize == 65536
InHeaderSize == 40
OutHeaderSize == 16

OK == 0
ENOENT == 2
EINTR == 4
EIO == 5
ENODEV == 19
ENOSYS == 38
EBADF == 9

FUSE_LOOKUP == "FUSE_LOOKUP"
FUSE_FORGET == "FUSE_FORGET"
FUSE_GETATTR == "FUSE_GETATTR"
FUSE_BMAP == "FUSE_BMAP"
OPCODE_UNKNOWN == "OPCODE_UNKNOWN"

Opcodes == {FUSE_LOOKUP, FUSE_FORGET, FUSE_GETATTR, FUSE_BMAP, OPCODE_UNKNOWN}

\* the messages a successful read returns, as opcode and byte count: a
\* truncated header, a bare header, a header with 8 and with 16 argument bytes
MsgKinds ==
    { <<FUSE_GETATTR, 24>>,
      <<OPCODE_UNKNOWN, InHeaderSize>>, <<FUSE_BMAP, InHeaderSize>>,
      <<FUSE_LOOKUP, InHeaderSize>>,
      <<FUSE_GETATTR, InHeaderSize + 8>>, <<FUSE_GETATTR, InHeaderSize + 16>>,
      <<FUSE_FORGET, InHeaderSize>>, <<FUSE_FORGET, InHeaderSize + 8>> }

\* errno values a failed read reports
ReadErrnos == {ENOENT, ENODEV, ENOSYS, EINTR}

\* status values a handler sets
HandlerStatuses == {OK, ENOENT}

\* flatData a handler sets: nil, an empty slice, the longest payload
FlatDatas == {-1, 0, MaxFlat}

Workers == 0 .. BACKGROUND_TASKS
Uniques == 1 .. MaxMsgs
NoWorker == -1
\* a nil slice
Nil == -1

----------------------------------------------------------------------------
(* The operation registry: *operationHandler per opcode *)

NilHandler == [nil |-> TRUE, Func |-> FALSE, InputSize |-> 0, OutputSize |-> 0]

Entry(func, in, out) ==
    [nil |-> FALSE, Func |-> func, InputSize |-> in, OutputSize |-> out]

\* the table with and without a handler function for FUSE_FORGET
Registries ==
    { [o \in Opcodes |->
         CASE o = FUSE_LOOKUP -> Entry(TRUE, 0, 128)
           [] o = FUSE_FORGET -> Entry(f, 8, 0)
           [] o = FUSE_GETATTR -> Entry(TRUE, 16, 104)
           [] o = FUSE_BMAP -> Entry(FALSE, 0, 0)
           [] OTHER -> NilHandler] : f \in BOOLEAN }

VARIABLES
    recordStats,        \* me.LatencyMap != nil
    operationHandlers,  \* the registry getHandler reads
    loopPc,             \* position of the caller of Loop(): "init", "loop", "closed"
    pc,                 \* position of each worker in loop()
    req,                \* each worker's request object
    nextUnique,         \* Unique of the next message of the kernel
    msgs,               \* history: message of each Unique and the worker that read it
    invoked,            \* history: handler invocations per message
    lookups,            \* history: getHandler calls per message
    written,            \* history: reply writes issued per message
    lastRead,           \* history: errno of each worker's last read, OK for a message
    logged,             \* history: log lines printed, as <<kind, Unique or worker>>
    panicked,           \* a goroutine dereferenced nil: the process is gone
    clock,              \* time.Nanoseconds(): the latest reading
    stamps,             \* startNs and preWriteNs of each worker's request
    latency,            \* history: the arguments of every LatencyMap.AddMany call
    pool,               \* me.buffers
    inputBufOf,         \* the buffer behind each worker's req.inputBuf
    flatBufOf,          \* the buffer behind each worker's req.flatData
    run,                \* "first" or "replay": which of two compared runs executes
    inputLog,           \* the inputs of the first run, in order
    obsLog,             \* what was observable after each input of the first run
    pos                 \* inputs replayed so far

\* the control state of the loop
ctlVars == <<recordStats, operationHandlers, loopPc, pc, req, nextUnique, msgs,
             invoked, lookups, written, lastRead, logged, panicked>>

\* time stamps, latency records and buffers
auxVars == <<clock, stamps, latency, pool, inputBufOf, flatBufOf>>

\* the record of a run that is compared with its repetition
pairVars == <<run, inputLog, obsLog, pos>>

vars == <<ctlVars, auxVars, pairVars>>

----------------------------------------------------------------------------
(* Requests *)

NoMsg == [Unique |-> 0, Opcode |-> OPCODE_UNKNOWN, len |-> 0]

NoOutHeader == [set |-> FALSE, Unique |-> 0, Status |-> 0, Length |-> 0, size |-> 0]

\* getHandler(opcode)
getHandler(reg, opcode) == reg[opcode]

\* a bug: the input buffer is resliced to no bytes instead of bufSize
newRequestEmptyBuf(oldReq) ==
    [inputLen |-> 0,
     buf |-> oldReq.buf,
     inHeader |-> FALSE,
     inData |-> FALSE,
     arg |-> Nil,
     outData |-> FALSE,
     status |-> OK,
     flatData |-> Nil,
     outHeaderBytes |-> NoOutHeader]

\* newRequest: status OK, the input buffer resliced to bufSize, all other
\* fields zero.  The buffer keeps its bytes (buf).
newRequest(oldReq) ==
    [inputLen |-> bufSize,
     buf |-> oldReq.buf,
     inHeader |-> FALSE,
     inData |-> FALSE,
     arg |-> Nil,
     outData |-> FALSE,
     status |-> OK,
     flatData |-> Nil,
     outHeaderBytes |-> NoOutHeader]

\* lastReq == nil in the first iteration: a fresh buffer from the pool
FirstReq == newRequest([buf |-> NoMsg])

\* readRequest, successful: the message fills the buffer, inputBuf[0:n]
readRequest(r, m) == [r EXCEPT !.inputLen = m.len, !.buf = m]

\* readRequest, failed: n = 0, nothing copied
readFailed(r) == [r EXCEPT !.inputLen = 0]

\* a bug: the length is compared with the size of the reply header
shortHeaderOutSize(r) == r.inputLen < OutHeaderSize

\* chopMessage: len(req.inputBuf) < inHSize
shortHeader(r) == r.inputLen < InHeaderSize

\* a bug: the whole buffer instead of the argument region is measured
shortArgWholeBuf(r, handler) == r.inputLen < handler.InputSize

\* chopMessage: len(req.arg) < handler.InputSize
shortArg(r, handler) == r.arg < handler.InputSize

\* chopMessage: the request after the call, the handler returned, the log
\* line printed and whether getHandler was called
chopMessage(r, reg) ==
    IF shortHeader(r)
    THEN [req |-> r, handler |-> NilHandler, log |-> "ShortHeader", lookup |-> FALSE]
    ELSE LET r1 == [r EXCEPT !.inHeader = TRUE, !.arg = r.inputLen - InHeaderSize]
             handler == getHandler(reg, r1.buf.Opcode)
         IN  IF handler.nil \/ ~handler.Func
             THEN [req |-> [r1 EXCEPT !.status = ENOSYS], handler |-> handler,
                   log |-> "UnknownOpcode", lookup |-> TRUE]
             ELSE IF shortArg(r1, handler)
             THEN [req |-> [r1 EXCEPT !.status = EIO], handler |-> handler,
                   log |-> "ShortArg", lookup |-> TRUE]
             ELSE IF handler.InputSize > 0
             THEN [req |-> [r1 EXCEPT !.inData = TRUE,
                                      !.arg = r1.arg - handler.InputSize],
                   handler |-> handler, log |-> "", lookup |-> TRUE]
             ELSE [req |-> r1, handler |-> handler, log |-> "", lookup |-> TRUE]

\* len(req.flatData)
FlatLen(r) == IF r.flatData = Nil THEN 0 ELSE r.flatData

\* a bug: the reply header is left with a zero Unique
replyUniqueUnset(r) == 0

\* serialize: outHeader.Unique = req.inHeader.Unique
replyUnique(r) == r.buf.Unique

\* a bug: the fixed payload is dropped whenever there is flat data
dataLengthNoFlat(r, handler) ==
    IF ~r.outData \/ r.status # OK \/ r.flatData # Nil THEN 0 ELSE handler.OutputSize

\* serialize: dataLength, the bytes of the output struct that are sent
dataLength(r, handler) ==
    IF ~r.outData \/ r.status # OK THEN 0 ELSE handler.OutputSize

\* serialize: builds outHeaderBytes.  Unique is read through inHeader, that
\* is from the bytes now in the input buffer.  Length is a uint32; a reply is
\* at most a header, an output struct and one read buffer, far below 2^32.
serialize(r, handler) ==
    [r EXCEPT !.outHeaderBytes =
        [set |-> TRUE,
         Unique |-> replyUnique(r),
         Status |-> -r.status,
         Length |-> OutHeaderSize + dataLength(r, handler) + FlatLen(r),
         size |-> OutHeaderSize + dataLength(r, handler)]]

\* a bug: the no-reply opcode is answered like any other
needsReplyAlways(r) == TRUE

\* handle: req.inHeader.Opcode != FUSE_FORGET
needsReply(r) == r.buf.Opcode # FUSE_FORGET

\* a bug: the handler is called whatever chopMessage found
shouldDispatchAlways(r) == TRUE

\* handle: req.status == OK
shouldDispatch(r) == r.status = OK

\* a bug: the header and the flat payload go out in two write calls
WriteCallsSplit(r) ==
    IF ~r.outHeaderBytes.set THEN <<>>
    ELSE IF r.flatData = Nil THEN << <<r.outHeaderBytes.size>> >>
    ELSE << <<r.outHeaderBytes.size>>, <<r.flatData>> >>

\* Write: the system calls issued, each as the lengths of its buffers:
\* none, one write(outHeaderBytes), or one writev(outHeaderBytes, flatData)
WriteCalls(r) ==
    IF ~r.outHeaderBytes.set THEN <<>>
    ELSE IF r.flatData = Nil THEN << <<r.outHeaderBytes.size>> >>
    ELSE << <<r.outHeaderBytes.size, r.flatData>> >>

\* a bug: a failed write is not reported
writeLogSilent(r, ok) == {}

\* Write: the log line of a failed Write/Writev
writeLog(r, ok) ==
    IF ok \/ WriteCalls(r) = <<>> THEN {} ELSE {<<"WriteFailed", r.buf.Unique>>}

\* discardRequest dereferences req.inHeader when statistics are recorded
discardPanics(r, stats) == stats /\ ~r.inHeader

\* a bug: every errno without a case of its own is retried
readErrorClassRetryUnknown(errNo) ==
    IF errNo = ENODEV THEN "stop"
    ELSE IF errNo = ENOSYS THEN "stop"
    ELSE "retry"

\* classification of a failed read in loop(): "retry", "stop", "logstop"
readErrorClass(errNo) ==
    IF errNo = ENOENT THEN "retry"
    ELSE IF errNo = ENODEV THEN "stop"
    ELSE IF errNo = ENOSYS THEN "stop"
    ELSE "logstop"

----------------------------------------------------------------------------
(* Time stamps and latency records *)

\* a request fresh from newRequest: startNs and preWriteNs are zero
NoStamps == [startNs |-> 0, preWriteNs |-> 0]

\* readRequest: req.startNs = time.Nanoseconds(), when statistics are recorded
stampStart(s, stats, now) == IF stats THEN [s EXCEPT !.startNs = now] ELSE s

\* Write: req.preWriteNs = time.Nanoseconds(), when statistics are recorded
stampPreWrite(s, stats, now) == IF stats THEN [s EXCEPT !.preWriteNs = now] ELSE s

\* discardRequest: the arguments of AddMany, the duration of the request and
\* of its write phase
latencyArgs(opcode, s, endNs) ==
    [name |-> opcode, dt |-> endNs - s.startNs, writeDt |-> endNs - s.preWriteNs]

----------------------------------------------------------------------------
(* The buffer pool *)

\* buffers the pool can create: one input buffer a worker, one flat payload a
\* message
Buffers == 1 .. (BACKGROUND_TASKS + 1 + MaxMsgs)

\* NewBufferPool: nothing created, nothing free
NewBufferPool ==
    [free |-> {}, made |-> 0,
     allocs |-> [b \in Buffers |-> 0], frees |-> [b \in Buffers |-> 0]]

\* the buffers AllocBuffer may return: a free one, or one it creates
AllocChoices(p) ==
    p.free \cup (IF p.made < BACKGROUND_TASKS + 1 + MaxMsgs THEN {p.made + 1} ELSE {})

\* AllocBuffer returning b
AllocBuffer(p, b) ==
    [p EXCEPT !.free = @ \ {b},
              !.made = IF b = p.made + 1 THEN b ELSE @,
              !.allocs[b] = @ + 1]

\* FreeBuffer(b); a nil slice is ignored
FreeBuffer(p, b) ==
    IF b = Nil THEN p
    ELSE [p EXCEPT !.free = @ \cup {b}, !.frees[b] = @ + 1]

\* a bug: the input buffer goes back to the pool with the flat payload
newRequestFreesInput(inBuf, flBuf) == <<inBuf, flBuf>>

\* newRequest: the slices passed to FreeBuffer, FreeBuffer(oldReq.flatData)
newRequestFrees(inBuf, flBuf) == <<flBuf>>

RECURSIVE FreeAll(_, _)
FreeAll(p, bufs) ==
    IF bufs = <<>> THEN p ELSE FreeAll(FreeBuffer(p, Head(bufs)), Tail(bufs))

----------------------------------------------------------------------------
(* Initial state: NewMountState, Mount *)

Init ==
    /\ recordStats = FALSE
    /\ operationHandlers \in Registries
    /\ loopPc = "init"
    /\ pc = [w \in Workers |-> "idle"]
    /\ req = [w \in Workers |-> FirstReq]
    /\ nextUnique = 1
    /\ msgs = [u \in Uniques |-> [reader |-> NoWorker, Opcode |-> OPCODE_UNKNOWN, len |-> 0]]
    /\ invoked = [u \in Uniques |-> 0]
    /\ lookups = [u \in Uniques |-> 0]
    /\ written = [u \in Uniques |-> <<>>]
    /\ lastRead = [w \in Workers |-> Nil]
    /\ logged = {}
    /\ panicked = FALSE
    /\ clock = 1
    /\ stamps = [w \in Workers |-> NoStamps]
    /\ latency = <<>>
    /\ pool = NewBufferPool
    /\ inputBufOf = [w \in Workers |-> Nil]
    /\ flatBufOf = [w \in Workers |-> Nil]
    /\ run = "first"
    /\ inputLog = <<>>
    /\ obsLog = <<>>
    /\ pos = 0

Closed == loopPc = "closed"

----------------------------------------------------------------------------
(* Operations *)

\* SetRecordStatistics(record), called before the loop is started
SetRecordStatistics(record) ==
    /\ loopPc = "init"
    /\ recordStats' = record
    /\ UNCHANGED <<operationHandlers, loopPc, pc, req, nextUnique, msgs, invoked,
                   lookups, written, lastRead, logged, panicked>>

\* Loop(threaded): start the background loops, enter loop() in the caller
Loop(threaded) ==
    /\ loopPc = "init"
    /\ loopPc' = "loop"
    /\ pc' = [w \in Workers |-> IF w = 0 \/ threaded THEN "read" ELSE "idle"]
    /\ UNCHANGED <<recordStats, operationHandlers, req, nextUnique, msgs, invoked,
                   lookups, written, lastRead, logged, panicked>>

\* Loop: me.loop() of the caller has returned, me.mountFile.Close()
Close ==
    /\ loopPc = "loop"
    /\ pc[0] = "stopped"
    /\ ~panicked
    /\ loopPc' = "closed"
    /\ UNCHANGED <<recordStats, operationHandlers, pc, req, nextUnique, msgs,
                   invoked, lookups, written, lastRead, logged, panicked>>

\* discardRequest (deferred in handle(), or called on a transient read
\* error), then the top of the loop: newRequest(lastReq), and the worker
\* blocks in readRequest
Discard(w, r, log) ==
    /\ logged' = logged \cup log
    /\ IF discardPanics(r, recordStats)
       THEN /\ panicked' = TRUE
            /\ pc' = [pc EXCEPT ![w] = "panic"]
            /\ req' = [req EXCEPT ![w] = r]
       ELSE /\ panicked' = FALSE
            /\ pc' = [pc EXCEPT ![w] = "read"]
            /\ req' = [req EXCEPT ![w] = newRequest(r)]

\* loop(): readRequest fails
ReadError(w, errNo) ==
    /\ pc[w] = "read"
    /\ ~panicked
    /\ IF Closed THEN errNo = EBADF ELSE errNo \in ReadErrnos
    /\ lastRead' = [lastRead EXCEPT ![w] = errNo]
    /\ LET r == readFailed(req[w])
           class == readErrorClass(errNo)
       IN  IF class = "retry"
           THEN Discard(w, r, {})
           ELSE /\ req' = [req EXCEPT ![w] = r]
                /\ pc' = [pc EXCEPT ![w] = "stopped"]
                /\ logged' = IF class = "logstop"
                             THEN logged \cup {<<"ReadFailed", w>>} ELSE logged
                /\ UNCHANGED panicked
    /\ UNCHANGED <<recordStats, operationHandlers, loopPc, nextUnique, msgs,
                   invoked, lookups, written>>

\* loop(): readRequest returns message m, handle() up to the handler call,
\* or to the write, or to its end
ReadMessage(w, opcode, len) ==
    /\ pc[w] = "read"
    /\ ~panicked
    /\ ~Closed
    /\ nextUnique <= MaxMsgs
    /\ LET m == [Unique |-> nextUnique, Opcode |-> opcode, len |-> len]
           c == chopMessage(readRequest(req[w], m), operationHandlers)
           log == IF c.log = "" THEN {} ELSE {<<c.log, m.Unique>>}
       IN  /\ msgs' = [msgs EXCEPT ![m.Unique] =
                          [reader |-> w, Opcode |-> opcode, len |-> len]]
           /\ lookups' = [lookups EXCEPT ![m.Unique] = IF c.lookup THEN @ + 1 ELSE @]
           /\ IF c.handler.nil
              THEN Discard(w, c.req, log)
              ELSE IF shouldDispatch(c.req)
              THEN /\ req' = [req EXCEPT ![w] = c.req]
                   /\ pc' = [pc EXCEPT ![w] = "dispatch"]
                   /\ logged' = logged \cup log
                   /\ UNCHANGED panicked
              ELSE IF needsReply(c.req)
              THEN /\ req' = [req EXCEPT ![w] = serialize(c.req, c.handler)]
                   /\ pc' = [pc EXCEPT ![w] = "write"]
                   /\ logged' = logged \cup log
                   /\ UNCHANGED panicked
              ELSE Discard(w, c.req, log)
    /\ nextUnique' = nextUnique + 1
    /\ lastRead' = [lastRead EXCEPT ![w] = OK]
    /\ UNCHANGED <<recordStats, operationHandlers, loopPc, invoked, written>>

\* handle(): dispatch calls handler.Func, which sets status, outData and
\* flatData; then serialize unless the opcode is FUSE_FORGET
Dispatch(w, status, outData, flatData) ==
    /\ pc[w] = "dispatch"
    /\ ~panicked
    /\ LET r == [req[w] EXCEPT !.status = status, !.outData = outData,
                               !.flatData = flatData]
           handler == getHandler(operationHandlers, r.buf.Opcode)
       IN  /\ invoked' = [invoked EXCEPT ![r.buf.Unique] = @ + 1]
           /\ IF needsReply(r)
              THEN /\ req' = [req EXCEPT ![w] = serialize(r, handler)]
                   /\ pc' = [pc EXCEPT ![w] = "write"]
                   /\ UNCHANGED <<logged, panicked>>
              ELSE Discard(w, r, {})
    /\ UNCHANGED <<recordStats, operationHandlers, loopPc, nextUnique, msgs,
                   lookups, written, lastRead>>

\* handle(): Write, then the deferred discardRequest
Write(w, ok) ==
    /\ pc[w] = "write"
    /\ ~panicked
    /\ Closed => ~ok
    /\ LET r == req[w]
           calls == WriteCalls(r)
       IN  /\ written' = [written EXCEPT ![r.buf.Unique] =
                  @ \o [i \in 1 .. Len(calls) |->
                          [worker |-> w,
                           Unique |-> r.outHeaderBytes.Unique,
                           Status |-> r.outHeaderBytes.Status,
                           Length |-> r.outHeaderBytes.Length,
                           parts |-> calls[i],
                           ok |-> ok]]]
           /\ Discard(w, r, writeLog(r, ok))
    /\ UNCHANGED <<recordStats, operationHandlers, loopPc, nextUnique, msgs,
                   invoked, lookups, lastRead>>

\* The control loop alone: time stamps and buffers are not observed.
Next ==
    \/ \E record \in BOOLEAN :
          SetRecordStatistics(record) /\ UNCHANGED <<auxVars, pairVars>>
    \/ \E threaded \in BOOLEAN :
          Loop(threaded) /\ UNCHANGED <<auxVars, pairVars>>
    \/ Close /\ UNCHANGED <<auxVars, pairVars>>
    \/ \E w \in Workers, errNo \in ReadErrnos \cup {EBADF} :
          ReadError(w, errNo) /\ UNCHANGED <<auxVars, pairVars>>
    \/ \E w \in Workers, k \in MsgKinds :
          ReadMessage(w, k[1], k[2]) /\ UNCHANGED <<auxVars, pairVars>>
    \/ \E w \in Workers, status \in HandlerStatuses, outData \in BOOLEAN,
          flatData \in FlatDatas :
          Dispatch(w, status, outData, flatData) /\ UNCHANGED <<auxVars, pairVars>>
    \/ \E w \in Workers, ok \in BOOLEAN :
          Write(w, ok) /\ UNCHANGED <<auxVars, pairVars>>

Spec == Init /\ [][Next]_vars

\* The messages and handler outcomes of the runs in which termination is
\* checked: a truncated header, a handled request, a no-reply request; a
\* handler that succeeds or fails without flat payload.
LiveMsgKinds ==
    { <<FUSE_GETATTR, 24>>, <<FUSE_GETATTR, InHeaderSize + 16>>,
      <<FUSE_FORGET, InHeaderSize + 8>> }

\* one step of worker w
WorkerStep(w) ==
    \/ \E errNo \in ReadErrnos \cup {EBADF} :
          ReadError(w, errNo) /\ UNCHANGED <<auxVars, pairVars>>
    \/ \E k \in LiveMsgKinds :
          ReadMessage(w, k[1], k[2]) /\ UNCHANGED <<auxVars, pairVars>>
    \/ \E status \in HandlerStatuses :
          Dispatch(w, status, TRUE, Nil) /\ UNCHANGED <<auxVars, pairVars>>
    \/ \E ok \in BOOLEAN : Write(w, ok) /\ UNCHANGED <<auxVars, pairVars>>

LiveNext ==
    \/ \E record \in BOOLEAN :
          SetRecordStatistics(record) /\ UNCHANGED <<auxVars, pairVars>>
    \/ \E threaded \in BOOLEAN :
          Loop(threaded) /\ UNCHANGED <<auxVars, pairVars>>
    \/ Close /\ UNCHANGED <<auxVars, pairVars>>
    \/ \E w \in Workers : WorkerStep(w)

\* The goroutine scheduler runs every worker that can take a step: a read
\* returns, a handler returns, a write returns.
FairSpec ==
    Init /\ [][LiveNext]_vars /\ \A w \in Workers : WF_vars(WorkerStep(w))

----------------------------------------------------------------------------
(* The loop with its time stamps, latency records and buffers *)

\* time between two readings of the clock
Elapsed == 0 .. 1

\* messages and flat payloads of the runs in which stamps and buffers are
\* observed: those of LiveMsgKinds and an opcode without registry entry
FullMsgKinds == LiveMsgKinds \cup { <<OPCODE_UNKNOWN, InHeaderSize>> }

FullFlatDatas == {Nil, MaxFlat}

\* the clock is read only when statistics are recorded
TimeGuard(d1, d2) ==
    IF recordStats THEN clock + d1 + d2 <= MaxClock ELSE d1 = 0 /\ d2 = 0

\* the step of worker w has reached the end of an iteration of loop()
Ended(w) == pc'[w] \in {"read", "panic"}

\* the end of an iteration of worker w whose request has stamps s and flat
\* buffer fl, with the pool at p: discardRequest at time endNs, then
\* newRequest, unless discardRequest crashed before AddMany
EndOfIteration(w, opcode, s, endNs, fl, p) ==
    IF pc'[w] = "panic"
    THEN /\ latency' = latency
         /\ stamps' = [stamps EXCEPT ![w] = s]
         /\ flatBufOf' = [flatBufOf EXCEPT ![w] = fl]
         /\ pool' = p
    ELSE /\ latency' = IF recordStats
                       THEN Append(latency, latencyArgs(opcode, s, endNs))
                       ELSE latency
         /\ stamps' = [stamps EXCEPT ![w] = NoStamps]
         /\ flatBufOf' = [flatBufOf EXCEPT ![w] = Nil]
         /\ pool' = FreeAll(p, newRequestFrees(inputBufOf[w], fl))

RECURSIVE AllocFresh(_, _)
\* n calls of AllocBuffer on a pool without free buffers
AllocFresh(p, n) ==
    IF n = 0 THEN p ELSE AllocFresh(AllocBuffer(p, p.made + 1), n - 1)

\* Loop: every loop() that is started takes its input buffer from the pool
\* in its first newRequest
FullLoop(threaded) ==
    /\ Loop(threaded)
    /\ inputBufOf' = [w \in Workers |->
                         IF pc'[w] = "read" THEN pool.made + w + 1 ELSE Nil]
    /\ pool' = AllocFresh(pool, Cardinality({w \in Workers : pc'[w] = "read"}))
    /\ UNCHANGED <<clock, stamps, latency, flatBufOf, pairVars>>

\* loop(): a failed readRequest stamps the request; discardRequest and
\* newRequest on the transient error
FullReadError(w, errNo, d1, d2) ==
    /\ ReadError(w, errNo)
    /\ TimeGuard(d1, d2)
    /\ LET s == stampStart(stamps[w], recordStats, clock + d1)
       IN  IF Ended(w)
           THEN /\ EndOfIteration(w, req[w].buf.Opcode, s, clock + d1 + d2,
                                  flatBufOf[w], pool)
                /\ clock' = clock + d1 + d2
           ELSE /\ d2 = 0
                /\ stamps' = [stamps EXCEPT ![w] = s]
                /\ clock' = clock + d1
                /\ UNCHANGED <<latency, pool, flatBufOf>>
    /\ UNCHANGED <<inputBufOf, pairVars>>

\* loop(): readRequest stamps the request; handle() may return at once
FullReadMessage(w, opcode, len, d1, d2) ==
    /\ ReadMessage(w, opcode, len)
    /\ TimeGuard(d1, d2)
    /\ LET s == stampStart(stamps[w], recordStats, clock + d1)
       IN  IF Ended(w)
           THEN /\ EndOfIteration(w, opcode, s, clock + d1 + d2, flatBufOf[w], pool)
                /\ clock' = clock + d1 + d2
           ELSE /\ d2 = 0
                /\ stamps' = [stamps EXCEPT ![w] = s]
                /\ clock' = clock + d1
                /\ UNCHANGED <<latency, pool, flatBufOf>>
    /\ UNCHANGED <<inputBufOf, pairVars>>

\* handle(): the handler takes the buffer b of its flat payload from the
\* pool; a FUSE_FORGET request ends here
FullDispatch(w, status, outData, flatData, b, d) ==
    /\ Dispatch(w, status, outData, flatData)
    /\ IF flatData = Nil THEN b = Nil ELSE b \in AllocChoices(pool)
    /\ LET p == IF b = Nil THEN pool ELSE AllocBuffer(pool, b)
       IN  IF Ended(w)
           THEN /\ TimeGuard(d, 0)
                /\ EndOfIteration(w, req[w].buf.Opcode, stamps[w], clock + d, b, p)
                /\ clock' = clock + d
           ELSE /\ d = 0
                /\ flatBufOf' = [flatBufOf EXCEPT ![w] = b]
                /\ pool' = p
                /\ UNCHANGED <<clock, stamps, latency>>
    /\ UNCHANGED <<inputBufOf, pairVars>>

\* handle(): Write stamps the request before the system call, then the
\* deferred discardRequest and the next newRequest
FullWrite(w, ok, d1, d2) ==
    /\ Write(w, ok)
    /\ TimeGuard(d1, d2)
    /\ EndOfIteration(w, req[w].buf.Opcode,
                      stampPreWrite(stamps[w], recordStats, clock + d1),
                      clock + d1 + d2, flatBufOf[w], pool)
    /\ clock' = clock + d1 + d2
    /\ UNCHANGED <<inputBufOf, pairVars>>

FullNext ==
    \/ \E record \in BOOLEAN :
          SetRecordStatistics(record) /\ UNCHANGED <<auxVars, pairVars>>
    \/ \E threaded \in BOOLEAN : FullLoop(threaded)
    \/ Close /\ UNCHANGED <<auxVars, pairVars>>
    \/ \E w \in Workers, errNo \in {ENOENT, ENODEV, EBADF}, d1, d2 \in Elapsed :
          FullReadError(w, errNo, d1, d2)
    \/ \E w \in Workers, k \in FullMsgKinds, d1, d2 \in Elapsed :
          FullReadMessage(w, k[1], k[2], d1, d2)
    \/ \E w \in Workers, status \in HandlerStatuses, flatData \in FullFlatDatas,
          b \in Buffers \cup {Nil}, d \in Elapsed :
          FullDispatch(w, status, TRUE, flatData, b, d)
    \/ \E w \in Workers, ok \in BOOLEAN, d1, d2 \in Elapsed :
          FullWrite(w, ok, d1, d2)

FullSpec == Init /\ [][FullNext]_vars

----------------------------------------------------------------------------
(* Two runs on the same inputs, with and without statistics *)

\* messages of the compared runs
PairMsgKinds ==
    { <<FUSE_GETATTR, 24>>, <<FUSE_GETATTR, InHeaderSize + 16>>,
      <<FUSE_FORGET, InHeaderSize + 8>> }

\* what the environment does to the loop: the call of Loop, the outcome of a
\* channel read of worker w, the outcome of its handler, of its write, and
\* the return of the caller's loop
PairInputs ==
    [op : {"Loop"}, w : {0}, opcode : {""}, n : {0}, b : BOOLEAN]
    \cup [op : {"Close"}, w : {0}, opcode : {""}, n : {0}, b : {FALSE}]
    \cup [op : {"ReadError"}, w : Workers, opcode : {""},
          n : {ENOENT, ENODEV, EBADF}, b : {FALSE}]
    \cup { [op |-> "ReadMessage", w |-> w, opcode |-> k[1], n |-> k[2], b |-> FALSE] :
             w \in Workers, k \in PairMsgKinds }
    \cup [op : {"Dispatch"}, w : Workers, opcode : {""}, n : HandlerStatuses,
          b : {FALSE}]
    \cup [op : {"Write"}, w : Workers, opcode : {""}, n : {0}, b : BOOLEAN]

\* the operation that input i drives
Act(i) ==
    CASE i.op = "Loop" -> Loop(i.b)
      [] i.op = "Close" -> Close
      [] i.op = "ReadError" -> ReadError(i.w, i.n)
      [] i.op = "ReadMessage" -> ReadMessage(i.w, i.opcode, i.n)
      [] i.op = "Dispatch" -> Dispatch(i.w, i.n, TRUE, Nil)
      [] i.op = "Write" -> Write(i.w, i.b)

\* RUNNING, STOPPED, or gone with the crashed process
WorkerState(w) ==
    CASE pc[w] \in {"read", "dispatch", "write"} -> "RUNNING"
      [] pc[w] = "stopped" -> "STOPPED"
      [] pc[w] = "panic" -> "CRASHED"
      [] OTHER -> "IDLE"

\* what a run shows: handler invocations, reply writes, the workers' states
Obs ==
    [invoked |-> invoked,
     written |-> written,
     workers |-> [w \in Workers |-> IF panicked THEN "CRASHED" ELSE WorkerState(w)]]

\* SetRecordStatistics before the first run
PairConfigure(record) ==
    /\ run = "first"
    /\ inputLog = <<>>
    /\ SetRecordStatistics(record)
    /\ UNCHANGED <<auxVars, pairVars>>

\* one input of the first run
PairFirst(i) ==
    /\ run = "first"
    /\ Len(inputLog) < MaxSteps
    /\ Act(i)
    /\ inputLog' = Append(inputLog, i)
    /\ obsLog' = Append(obsLog, Obs')
    /\ UNCHANGED <<auxVars, run, pos>>

\* the second run: NewMountState and Mount again, with the same registry and
\* SetRecordStatistics the other way
PairRestart ==
    /\ run = "first"
    /\ inputLog # <<>>
    /\ run' = "replay"
    /\ recordStats' = ~recordStats
    /\ loopPc' = "init"
    /\ pc' = [w \in Workers |-> "idle"]
    /\ req' = [w \in Workers |-> FirstReq]
    /\ nextUnique' = 1
    /\ msgs' = [u \in Uniques |-> [reader |-> NoWorker, Opcode |-> OPCODE_UNKNOWN, len |-> 0]]
    /\ invoked' = [u \in Uniques |-> 0]
    /\ lookups' = [u \in Uniques |-> 0]
    /\ written' = [u \in Uniques |-> <<>>]
    /\ lastRead' = [w \in Workers |-> Nil]
    /\ logged' = {}
    /\ panicked' = FALSE
    /\ UNCHANGED <<operationHandlers, auxVars, inputLog, obsLog, pos>>

\* the next input of the first run, given to the second run
PairReplay ==
    /\ run = "replay"
    /\ pos < Len(inputLog)
    /\ Act(inputLog[pos + 1])
    /\ pos' = pos + 1
    /\ UNCHANGED <<auxVars, run, inputLog, obsLog>>

PairNext ==
    \/ \E record \in BOOLEAN : PairConfigure(record)
    \/ \E i \in PairInputs : PairFirst(i)
    \/ PairRestart
    \/ PairReplay

PairSpec == Init /\ [][PairNext]_vars

----------------------------------------------------------------------------
(* Vocabulary of the properties *)

\* message u has been read from the channel
Delivered(u) == msgs[u].reader # NoWorker

\* the worker that read message u is between its read and the end of handle()
InFlight(u) ==
    \E w \in Workers : pc[w] \in {"dispatch", "write"} /\ req[w].buf.Unique = u

\* handle() has returned (or panicked in its deferred call) for message u
Done(u) == Delivered(u) /\ ~InFlight(u)

\* the header of message u is complete
FullHeader(u) == msgs[u].len >= InHeaderSize

\* the registry entry of the opcode of message u
EntryOf(u) == operationHandlers[msgs[u].Opcode]

\* bytes handed to the channel by one write call
RECURSIVE SumParts(_)
SumParts(parts) == IF parts = <<>> THEN 0 ELSE Head(parts) + SumParts(Tail(parts))

\* all reply writes issued so far
Replies == UNION { { written[u][i] : i \in 1 .. Len(written[u]) } : u \in Uniques }

----------------------------------------------------------------------------
(* Properties *)

\* C1: every message read whose opcode is not FUSE_FORGET gets exactly one
\* reply write: never more than one, and one once handle() has returned,
\* whatever its length and whether or not its opcode is registered.
C1_ExactlyOneReply ==
    \A u \in Uniques :
        Delivered(u) /\ msgs[u].Opcode # FUSE_FORGET =>
            /\ Len(written[u]) <= 1
            /\ Done(u) => Len(written[u]) = 1

C3_UnregisteredRepliesENOSYS ==
    \A u \in Uniques :
        Delivered(u) /\ FullHeader(u) /\ (EntryOf(u).nil \/ ~EntryOf(u).Func) =>
            /\ invoked[u] = 0
            /\ Done(u) =>
                /\ Len(written[u]) = 1
                /\ written[u][1].Status = -ENOSYS
                /\ written[u][1].Length = OutHeaderSize

\* C4: a message for a registered opcode whose argument region is shorter
\* than the fixed input size gets status EIO, never reaches the handler, and,
\* unless the opcode is FUSE_FORGET, is answered by one reply with status EIO
\* and the length of the reply header.
C4_ShortArgRepliesEIO ==
    \A u \in Uniques :
        ( /\ Delivered(u) /\ FullHeader(u)
          /\ ~EntryOf(u).nil /\ EntryOf(u).Func
          /\ msgs[u].len - InHeaderSize < EntryOf(u).InputSize ) =>
            /\ invoked[u] = 0
            /\ \A w \in Workers :
                  pc[w] \in {"dispatch", "write"} /\ req[w].buf.Unique = u =>
                      pc[w] = "write" /\ req[w].status = EIO
            /\ msgs[u].Opcode = FUSE_FORGET => written[u] = <<>> /\ Done(u)
            /\ msgs[u].Opcode # FUSE_FORGET /\ Done(u) =>
                /\ Len(written[u]) = 1
                /\ written[u][1].Status = -EIO
                /\ written[u][1].Length = OutHeaderSize
                /\ written[u][1].parts = <<OutHeaderSize>>

C4_Witness ==
    \E u \in Uniques :
        /\ Done(u) /\ msgs[u].Opcode = FUSE_GETATTR
        /\ msgs[u].len = InHeaderSize + 8
        /\ Len(written[u]) = 1

\* C5: every reply written carries the Unique of the message its worker read
\* in the same iteration: it is written by the worker that read that message,
\* and no Unique is answered twice.
C5_ReplyCarriesRequestUnique ==
    \A u \in Uniques :
        /\ Len(written[u]) <= 1
        /\ \A i \in 1 .. Len(written[u]) :
              /\ written[u][i].Unique = u
              /\ written[u][i].worker = msgs[u].reader
        /\ \A w \in Workers :
              pc[w] = "write" /\ req[w].buf.Unique = u =>
                  /\ msgs[u].reader = w
                  /\ req[w].outHeaderBytes.Unique = u
                  /\ written[u] = <<>>

\* both workers have answered a message each
C5_Witness ==
    \E u, v \in Uniques :
        /\ Len(written[u]) = 1 /\ Len(written[v]) = 1
        /\ written[u][1].worker # written[v][1].worker

\* C6: a FUSE_FORGET message never causes a channel write, whether its
\* argument is short, no handler function is registered, or the handler ran
\* with any outcome.
C6_ForgetNeverWritten ==
    \A u \in Uniques :
        Delivered(u) /\ msgs[u].Opcode = FUSE_FORGET =>
            /\ written[u] = <<>>
            /\ \A w \in Workers : req[w].buf.Unique = u => pc[w] # "write"

C6_Witness ==
    \E u \in Uniques :
        Done(u) /\ msgs[u].Opcode = FUSE_FORGET /\ invoked[u] = 1

\* C7: a reply whose status is not success is header-only: its declared
\* length is the size of the reply header and no payload byte, fixed or flat,
\* is handed to the channel with it.
C7_FailureReplyHeaderOnly ==
    \A rep \in Replies :
        rep.Status # 0 =>
            /\ rep.Length = OutHeaderSize
            /\ SumParts(rep.parts) = OutHeaderSize

\* C8 as stated: status success and a registry entry with a non-zero output
\* size give a declared length of header + output size + flat length, and as
\* many bytes handed to the channel.
C8_SuccessLengthByRegistry ==
    \A w \in Workers :
        LET r == req[w]
            h == operationHandlers[r.buf.Opcode]
        IN  pc[w] = "write" /\ r.status = OK /\ h.OutputSize > 0 =>
                /\ r.outHeaderBytes.Length = OutHeaderSize + h.OutputSize + FlatLen(r)
                /\ SumParts(WriteCalls(r)[1]) = r.outHeaderBytes.Length

\* C8 amended: status success, a registry entry with a non-zero output size
\* and an output struct set by the handler give a declared length of header +
\* output size + flat length; and every reply hands as many bytes to the
\* channel as its header declares.
C8_SuccessLengthWithOutData ==
    /\ \A w \in Workers :
          LET r == req[w]
              h == operationHandlers[r.buf.Opcode]
          IN  pc[w] = "write" /\ r.status = OK /\ h.OutputSize > 0 /\ r.outData =>
                  /\ r.outHeaderBytes.Length = OutHeaderSize + h.OutputSize + FlatLen(r)
                  /\ Len(WriteCalls(r)) = 1
                  /\ SumParts(WriteCalls(r)[1]) = r.outHeaderBytes.Length
    /\ \A rep \in Replies :
          rep.Status = 0 => SumParts(rep.parts) = rep.Length

C8_Witness ==
    \E rep \in Replies :
        /\ rep.Status = 0
        /\ rep.Length = OutHeaderSize + 128 + MaxFlat
        /\ rep.parts = <<OutHeaderSize + 128, MaxFlat>>

\* C9: a failed read is classified by its errno: ENOENT leaves the worker
\* running, at its next read; ENODEV and ENOSYS stop it without a log line;
\* any other errno stops it with a log line.
C9_ReadFailureClassified ==
    \A w \in Workers :
        /\ lastRead[w] = ENOENT => pc[w] = "read"
        /\ lastRead[w] \in {ENODEV, ENOSYS} =>
              pc[w] = "stopped" /\ <<"ReadFailed", w>> \notin logged
        /\ lastRead[w] \in {EINTR, EBADF} =>
              pc[w] = "stopped" /\ <<"ReadFailed", w>> \in logged

\* C10: the channel is closed only when every worker has left its loop.
C10_ClosedOnlyWhenAllStopped ==
    Closed => \A w \in Workers : pc[w] \in {"stopped", "idle"}

\* the case in which handle() calls the handler of message u: a complete
\* header, a registry entry with a handler function, and an argument region
\* of at least the fixed input size
Dispatchable(u) ==
    /\ FullHeader(u)
    /\ ~EntryOf(u).nil /\ EntryOf(u).Func
    /\ msgs[u].len - InHeaderSize >= EntryOf(u).InputSize

\* C12: the handler runs exactly once for a message with a complete header,
\* a handler function and a long enough argument, and never otherwise; it is
\* never run a second time, also not after a failed write or a later
\* transient read error.
C12_HandlerInvokedOnce ==
    \A u \in Uniques :
        /\ invoked[u] <= 1
        /\ ~Delivered(u) => invoked[u] = 0
        /\ Delivered(u) /\ ~Dispatchable(u) => invoked[u] = 0
        /\ Delivered(u) /\ Dispatchable(u) =>
              invoked[u] = IF \E w \in Workers :
                                  pc[w] = "dispatch" /\ req[w].buf.Unique = u
                           THEN 0 ELSE 1

\* a handled message whose reply write failed, with its worker back in a
\* read that then failed transiently
C12_Witness ==
    \E u \in Uniques :
        /\ Done(u) /\ invoked[u] = 1
        /\ <<"WriteFailed", u>> \in logged
        /\ lastRead[msgs[u].reader] = ENOENT

\* C14: at every channel read the request has an input buffer of bufSize
\* bytes, status OK and no header view, argument view, output struct, flat
\* payload or encoded reply left from the cycle before.
C14_FreshRequestAtRead ==
    \A w \in Workers :
        pc[w] = "read" =>
            /\ req[w].inputLen = bufSize
            /\ req[w].status = OK
            /\ ~req[w].inHeader
            /\ ~req[w].inData
            /\ req[w].arg = Nil
            /\ ~req[w].outData
            /\ req[w].flatData = Nil
            /\ ~req[w].outHeaderBytes.set

\* a worker back at its read after a handler failure and a failed write of
\* a reply with flat payload
C14_Witness ==
    \E u \in Uniques :
        /\ Len(written[u]) = 1
        /\ ~written[u][1].ok
        /\ written[u][1].Status # 0
        /\ Len(written[u][1].parts) = 2
        /\ pc[msgs[u].reader] = "read"
        /\ req[msgs[u].reader].buf.Unique = u

\* C15: no worker ever crashes: the request header view is only read where
\* chopMessage has set it.
C15_NoWorkerCrashes ==
    /\ ~panicked
    /\ \A w \in Workers : pc[w] # "panic"

\* C18: a failed reply write is logged, is the only write for its message,
\* does not lead to a second handler call, and the step that fails leaves
\* the worker at its next read.
C18_WriteFailureState ==
    \A u \in Uniques :
        (\E i \in 1 .. Len(written[u]) : ~written[u][i].ok) =>
            /\ <<"WriteFailed", u>> \in logged
            /\ Len(written[u]) = 1
            /\ invoked[u] <= 1
            /\ ~InFlight(u)

C18_WriteFailureStep ==
    \A w \in Workers :
        ( /\ pc[w] = "write"
          /\ written'[req[w].buf.Unique] # written[req[w].buf.Unique] ) =>
            pc'[w] = "read" /\ ~panicked'

\* C18: the state property always holds and every step is such a step.
C18_WriteFailureKeepsRunning ==
    [](C18_WriteFailureState) /\ [][C18_WriteFailureStep]_vars

\* a worker that reads its next message after its write failed
C18_Witness ==
    \E u, v \in Uniques :
        /\ u < v
        /\ <<"WriteFailed", u>> \in logged
        /\ msgs[u].reader = msgs[v].reader
        /\ invoked[v] = 1

\* C19: every reply goes to the channel in one write call: a plain write of
\* header and fixed body when flatData is nil, one vectored write of header
\* and fixed body followed by the flat payload otherwise; the call carries
\* the whole reply.
C19_OneWritePerReply ==
    /\ \A u \in Uniques : Len(written[u]) <= 1
    /\ \A rep \in Replies :
          /\ Len(rep.parts) \in {1, 2}
          /\ SumParts(rep.parts) = rep.Length
    /\ \A w \in Workers, u \in Uniques :
          pc[w] = "read" /\ lastRead[w] = OK /\ req[w].buf.Unique = u
          /\ Dispatchable(u) /\ msgs[u].Opcode # FUSE_FORGET =>
              Len(written[u]) = 1

\* a reply with flat payload has gone out in one vectored write
C19_Witness ==
    \E rep \in Replies : Len(rep.parts) = 2 /\ rep.parts[2] = MaxFlat /\ rep.ok

\* C11: once the channel is closed, every worker that was started reaches
\* STOPPED, given that handlers return and workers are scheduled fairly.
C11_ClosedLeadsToStopped ==
    Closed ~> (\A w \in Workers : pc[w] \in {"stopped", "idle"})

\* a background worker stopped by the read that failed after the close
C11_Witness ==
    /\ Closed
    /\ \E w \in Workers : w # 0 /\ pc[w] = "stopped" /\ lastRead[w] = EBADF
    /\ \A w \in Workers : pc[w] = "stopped"

\* the buffers some worker's request refers to
HeldBuffers ==
    ({ inputBufOf[w] : w \in Workers } \cup { flatBufOf[w] : w \in Workers }) \ {Nil}

\* C13: no buffer has two owners: the workers' input buffers are distinct,
\* a flat buffer belongs to one request and is no input buffer, no buffer a
\* request refers to is free in the pool, the flat buffer of a pending reply
\* is held until its write has returned and is back in the pool at the next
\* read, and every buffer is released once for each time it was handed out.
C13_NoBufferAliasing ==
    /\ \A w \in Workers :
          pc[w] \in {"read", "dispatch", "write"} => inputBufOf[w] # Nil
    /\ \A w1, w2 \in Workers :
          /\ w1 # w2 /\ inputBufOf[w1] # Nil => inputBufOf[w1] # inputBufOf[w2]
          /\ w1 # w2 /\ flatBufOf[w1] # Nil => flatBufOf[w1] # flatBufOf[w2]
          /\ flatBufOf[w1] # Nil => flatBufOf[w1] # inputBufOf[w2]
    /\ HeldBuffers \cap pool.free = {}
    /\ \A w \in Workers :
          /\ pc[w] = "write" /\ req[w].flatData # Nil => flatBufOf[w] # Nil
          /\ pc[w] \in {"read", "stopped"} => flatBufOf[w] = Nil
    /\ \A b \in Buffers :
          /\ pool.frees[b] = pool.allocs[b] - (IF b \in HeldBuffers THEN 1 ELSE 0)
          /\ b \in pool.free <=> pool.allocs[b] > 0 /\ b \notin HeldBuffers

\* a flat buffer that went back to the pool is handed out again and carries
\* the pending reply of another worker
C13_Witness ==
    \E w \in Workers, u \in Uniques :
        /\ pc[w] = "write" /\ flatBufOf[w] # Nil
        /\ pool.allocs[flatBufOf[w]] = 2
        /\ Len(written[u]) = 1 /\ written[u][1].worker # w
        /\ Len(written[u][1].parts) = 2

\* C17: the step in which a worker's read fails with ENOENT adds nothing to
\* the latency tracker, writes no reply, and leaves the worker at its next
\* read.
C17_TransientReadStep ==
    \A w \in Workers :
        ( /\ pc[w] = "read"
          /\ lastRead'[w] = ENOENT
          /\ lastRead'[w] # lastRead[w] \/ pc'[w] # pc[w] ) =>
            /\ latency' = latency
            /\ written' = written
            /\ pc'[w] = "read"

\* C17: every step of every run is such a step.
C17_TransientReadLeavesTracker == [][C17_TransientReadStep]_vars

\* C20: every latency record has a write-phase duration no larger than its
\* end-to-end duration.
C20_WritePhaseWithinRequest ==
    \A i \in 1 .. Len(latency) : latency[i].writeDt <= latency[i].dt

\* C16: a run and its repetition on the same inputs with statistics switched
\* the other way show the same handler invocations, reply writes and worker
\* states after every input.
C16_SameControlFlow ==
    run = "replay" /\ pos > 0 => Obs = obsLog[pos]

====
